---------------------------- MODULE Spec2Model ----------------------------
(***************************************************************************)
(* Reliable multicast with Lamport clocks: the engine of                   *)
(* reliable_multicast.py, the clock of lamport_clock.py and the            *)
(* connection-per-send transport of network.py, as a state machine.        *)
(*                                                                         *)
(* Granularity.  Every step is one access to shared state as the code      *)
(* makes it: a clock operation (atomic under LamportClock._lock), a dict   *)
(* or set operation (atomic under the interpreter lock), or a section held *)
(* under pending_lock or queue_lock.  A reader thread (one per accepted    *)
(* connection, network.py:84-89) walks through handle_received_message in  *)
(* these steps, so that several readers of one peer interleave.            *)
(*                                                                         *)
(* Time is abstracted: "current_time - sent_time > ack_timeout" becomes a  *)
(* nondeterministic choice in the lossy specification, and "the entry has  *)
(* waited with nothing of it under way" in the responsive one.             *)
(***************************************************************************)
EXTENDS Integers, Sequences, FiniteSets, Bags, TLC

VARIABLES
    clock,        \* clock[p]: LamportClock._clock
    seqno,        \* seqno[p]: sequence_numbers[process_id]
    known,        \* known[p]: known_processes
    msgs,         \* every Multicast created so far, indexed by message_id
    pending,      \* pending[p]: pending_messages, message_id -> entry
    received,     \* received[p]: keys of received_messages
    queue,        \* queue[p]: message_queue, a sequence of message_ids
    delivered,    \* delivered[p]: delivered_messages
    threads,      \* threads[p]: bag of running reader threads [f, pc]
    net,          \* bag of frames written to a connection, not yet read
    up,           \* up[p]: the listener of p accepts connections
    deliveredLog, \* deliveredLog[p]: calls of on_message_delivered, in order
    failedLog,    \* failedLog[p]: calls of on_message_failed, in order
    ackCount,     \* ackCount[p][id]: Acks p handed to send_callback for id
    attempts,     \* attempts[id][r]: times id was handed to send_callback for r
    mcLost,       \* mcLost[id]: a send of Multicast id failed
    ackLost,      \* ackLost[id]: a send of an Ack for id failed
    sweeps,       \* timer expiries so far (counted in the lossy specification)
    running,      \* running[p]: ReliableMulticast.running
    checker,      \* checker[p]: position of the _timeout_checker thread
    completedLog, \* completedLog[p]: entries deleted by _handle_ack_message
    heldAtCallback, \* [callback, held]: locks held while a callback ran
    callers,      \* callers[p]: bag of threads inside multicast, step by step
    original,     \* the Message object handed to to_json
    json_str,     \* the text to_json returned
    restored,     \* the Message object from_json returned
    process,      \* process[p]: DistributedProcess.running and its calls
    lock,         \* lock[l]: the thread that holds the lock l, or Free
    worker        \* worker[w]: how far the thread w is in its program

\* The variables of the serialization specification
codec == <<original, json_str, restored>>

\* The variables of the facade DistributedProcess and of the locks
facade == <<process, lock, worker>>

\* The variables of the engine
engine == <<clock, seqno, known, msgs, pending, received, queue, delivered,
            threads, net, up, deliveredLog, failedLog, ackCount, attempts,
            mcLost, ackLost, sweeps, running, checker, completedLog,
            heldAtCallback, callers>>

vars == <<engine, codec, facade>>

-----------------------------------------------------------------------------
(* Bounds of the model *)

Peers == {0, 1, 2}

\* Multicasts created in one run, all peers together
MaxMsgs == 2
\* Frames written and not yet read, all connections together
MaxInFlight == 2
\* Reader threads running at one peer
MaxReaders == 2
\* Timer expiries in one run of the lossy specification
MaxSweeps == 2
\* Threads inside multicast at one peer
MaxCallers == 2

\* ReliableMulticast.max_retries
MAX_RETRIES == 3

\* Calls of stop() on one process, and calls of send_multicast_message that
\* raise, that are followed
MaxStops == 2
MaxRaised == 1

\* Largest clock value and timestamp of the sampled receipts
MaxStamp == 10

Ids == 1..MaxMsgs

-----------------------------------------------------------------------------
(* Pure helpers *)

Max(a, b) == IF a >= b THEN a ELSE b

SetMin(S) == CHOOSE x \in S : \A y \in S : x <= y

\* list(set_of_small_ints): CPython iterates a set of small non-negative
\* integers in ascending order
RECURSIVE SetToList(_)
SetToList(S) ==
    IF S = {} THEN <<>>
    ELSE LET m == SetMin(S) IN <<m>> \o SetToList(S \ {m})

Range(s) == {s[i] : i \in 1..Len(s)}

Count(s, x) == Cardinality({i \in 1..Len(s) : s[i] = x})

\* tick that leaves the clock as it is
tick_Stale(c) == c

\* tick that adds two
tick_ByTwo(c) == c + 2

\* LamportClock.tick: the stored and returned value
tick(c) == c + 1

\* update without the increment
update_NoIncrement(c, t) == Max(c, t)

\* update that ignores the received timestamp
update_IgnoringReceived(c, t) == c + 1

\* LamportClock.update: the stored and returned value
update(c, t) == Max(c, t) + 1


\* del that leaves the entry in place
Remove_Nothing(f, k) == f

\* dict[k] = v, and del dict[k]
\* A table that takes no entry
Put_Nothing(f, k, v) == f

Put(f, k, v) == [x \in (DOMAIN f) \cup {k} |-> IF x = k THEN v ELSE f[x]]
Remove(f, k) == [x \in (DOMAIN f) \ {k} |-> f[x]]

-----------------------------------------------------------------------------
(* Messages and frames *)

\* MessageFactory.create_multicast: a MulticastMessage; message_id is a fresh
\* uuid4, modelled as the next unused index of msgs; requires_ack keeps its
\* default
create_multicast(sender_id, timestamp, recipients, sequence_number) ==
    [sender |-> sender_id, ts |-> timestamp, recips |-> recipients,
     seq |-> sequence_number, requires_ack |-> TRUE]

\* One frame on one connection carrying Multicast id to dst
McFrame(id, m, dst) ==
    [kind |-> "multicast", id |-> id, sender |-> m.sender, ts |-> m.ts,
     dst |-> dst]

\* An Ack that names the peer it is sent to as its sender
AckFrame_SenderIsTarget(sender_id, timestamp, original_message_id, dst) ==
    [kind |-> "acknowledgment", id |-> original_message_id,
     sender |-> dst, ts |-> timestamp, dst |-> dst]

\* MessageFactory.create_ack, framed for dst: id is original_message_id
\* (the Ack's own uuid is read nowhere and is left out)
AckFrame(sender_id, timestamp, original_message_id, dst) ==
    [kind |-> "acknowledgment", id |-> original_message_id,
     sender |-> sender_id, ts |-> timestamp, dst |-> dst]

\* (timestamp, sender_id) of a strictly precedes that of b: the comparison
\* both _add_to_ordered_queue and _try_deliver_messages make
Precedes(a, b) ==
    \/ msgs[a].ts < msgs[b].ts
    \/ msgs[a].ts = msgs[b].ts /\ msgs[a].sender < msgs[b].sender

\* _add_to_ordered_queue: insert before the first queued message that the
\* new one precedes, else append
InsertOrdered(q, id) ==
    LET before == {i \in 1..Len(q) : Precedes(id, q[i])}
    IN IF before = {} THEN Append(q, id)
       ELSE LET i == SetMin(before)
            IN SubSeq(q, 1, i - 1) \o <<id>> \o SubSeq(q, i, Len(q))

\* A head test that never passes
CanDeliverHead_Never(q, d) == FALSE

\* The head test without the look-up in delivered_messages
CanDeliverHead_NoDeliveredTest(q, d) ==
    \A i \in 2..Len(q) : ~Precedes(q[i], q[1])

\* The test of _try_deliver_messages on the head of a non-empty queue:
\* can_deliver and message_id not in delivered_messages
CanDeliverHead(q, d) ==
    /\ \A i \in 2..Len(q) : ~Precedes(q[i], q[1])
    /\ q[1] \notin d

\* _try_deliver_messages, the loop under queue_lock: the queue, the delivered
\* set and the calls of on_message_delivered it leaves
\* A delivery loop that takes the last entry of the queue
TryDeliver_FromTail(q, d, log) ==
    IF q = <<>> THEN [q |-> q, d |-> d, log |-> log]
    ELSE [q |-> SubSeq(q, 1, Len(q) - 1), d |-> d \cup {q[Len(q)]}, log |-> Append(log, q[Len(q)])]

RECURSIVE TryDeliver(_, _, _)
TryDeliver(q, d, log) ==
    IF q = <<>> THEN [q |-> q, d |-> d, log |-> log]
    ELSE IF CanDeliverHead(q, d)
         THEN TryDeliver(Tail(q), d \cup {q[1]}, Append(log, q[1]))
         ELSE [q |-> q, d |-> d, log |-> log]

-----------------------------------------------------------------------------
(* Message objects and their JSON text (message.py) *)

\* No object, no text
None == [none |-> TRUE]

\* The members of the enum MessageType that the classes below use
MULTICAST == [name |-> "MULTICAST", value |-> "multicast"]
ACK == [name |-> "ACK", value |-> "acknowledgment"]

\* The values of the five members of the enum MessageType: MessageType(v)
\* raises ValueError for any other v
MessageTypeValues ==
    {"multicast", "acknowledgment", "heartbeat", "join", "leave"}

\* MessageType(value): the member with that value
MessageType(value) == CHOOSE member \in {MULTICAST, ACK} : member.value = value

\* Message.__post_init__: an empty message_id is replaced by a new uuid4
PostInitId(message_id) == IF message_id = "" THEN "uuid4" ELSE message_id

\* MulticastMessage(...), __post_init__ included: the type is set to
\* MULTICAST whatever was passed
MulticastMessage(message_id, sender_id, message_type, timestamp, content, recipients, sequence_number, requires_ack) ==
    [class |-> "MulticastMessage", message_id |-> PostInitId(message_id),
     sender_id |-> sender_id, message_type |-> MULTICAST,
     timestamp |-> timestamp, content |-> content, recipients |-> recipients,
     sequence_number |-> sequence_number, requires_ack |-> requires_ack]

\* AckMessage(...), __post_init__ included
AckMessage(message_id, sender_id, message_type, timestamp, content, recipients, original_message_id) ==
    [class |-> "AckMessage", message_id |-> PostInitId(message_id),
     sender_id |-> sender_id, message_type |-> ACK,
     timestamp |-> timestamp, content |-> content, recipients |-> recipients,
     original_message_id |-> original_message_id]

\* asdict(self): the fields of the dataclass, without the class
asdict(m) == [k \in (DOMAIN m) \ {"class"} |-> m[k]]

\* Message.to_json: the JSON object written, as a map from keys to JSON
\* values; the enum member is replaced by its value, a string
to_json(m) ==
    [k \in DOMAIN asdict(m) |->
        IF k = "message_type" THEN m.message_type.value ELSE asdict(m)[k]]

\* data.get that always falls back to the default
Get_AlwaysDefault(data, key, default) == default

\* data.get(key, default)
Get(data, key, default) == IF key \in DOMAIN data THEN data[key] ELSE default

\* Message.from_json for the two kinds of message the engine exchanges
from_json(data) ==
    LET message_type == MessageType(data["message_type"])
    IN IF message_type = MULTICAST
       THEN MulticastMessage(data["message_id"], data["sender_id"],
                message_type, data["timestamp"], data["content"],
                Get(data, "recipients", <<>>),
                Get(data, "sequence_number", 0),
                Get(data, "requires_ack", TRUE))
       ELSE AckMessage(data["message_id"], data["sender_id"],
                message_type, data["timestamp"], data["content"],
                Get(data, "recipients", <<>>),
                Get(data, "original_message_id", ""))

-----------------------------------------------------------------------------
(* Transport *)

InFlight == BagCardinality(net)

\* NetworkManager.send_message for a set F of frames, one connection each:
\* the sets of frames that can end up written.  In the responsive
\* specification a connect fails exactly when the listener is down; in the
\* lossy one any connect may fail, and fails when MaxInFlight frames wait.
Written(F, responsive) ==
    IF responsive THEN {{f \in F : up[f.dst]}}
    ELSE {G \in SUBSET F : InFlight + Cardinality(G) <= MaxInFlight}

\* send_message once for every element of the list recipients, in a loop:
\* the sets of positions of the list whose frame can end up written
WrittenOf(recipients, responsive) ==
    IF responsive THEN {{i \in DOMAIN recipients : up[recipients[i]]}}
    ELSE {I \in SUBSET DOMAIN recipients :
             InFlight + Cardinality(I) <= MaxInFlight}

\* Nothing of Multicast id is on a connection or in a reader thread
Quiescent(id) ==
    /\ \A f \in BagToSet(net) : f.id # id
    /\ \A p \in Peers : \A t \in BagToSet(threads[p]) : t.f.id # id

NoThreads == EmptyBag

Thread(f, pc) == [f |-> f, pc |-> pc]

\* The thread t of p moves on to pc
Step(p, t, pc) ==
    [threads EXCEPT ![p] = (@ (-) SetToBag({t})) (+) SetToBag({Thread(t.f, pc)})]

\* The thread t of p ends
Exit(p, t) == [threads EXCEPT ![p] = @ (-) SetToBag({t})]

-----------------------------------------------------------------------------
(* Locks: threading.Lock objects, not re-entrant, and the order in which   *)
(* the threads of one process take and release them                       *)

Locks == {"clock_lock", "pending_lock", "queue_lock", "log_lock"}

\* No thread holds the lock
Free == "free"

Acquire(l) == [op |-> "acquire", lock |-> l]

Release(l) == [op |-> "release", lock |-> l]

\* with l: body
With(l, body) == <<Acquire(l)>> \o body \o <<Release(l)>>

\* LamportClock.tick, update and get_time: each takes the clock's lock and
\* calls nothing inside
tick_locks == With("clock_lock", <<>>)
update_locks == With("clock_lock", <<>>)
get_time_locks == With("clock_lock", <<>>)

\* An event log that takes queue_lock where it should take log_lock
log_event_UnderQueueLock(event_type) == With("queue_lock", get_time_locks)

\* DistributedProcess._log_event: get_time is called under log_lock
log_event(event_type) == With("log_lock", get_time_locks)

\* The threads of one process: a caller of send_multicast_message, two
\* reader threads handling a Multicast, one handling an Ack, the
\* _timeout_checker and a caller of get_statistics
Workers == {"caller", "reader1", "reader2", "acker", "checker", "statistics"}

\* What each thread does with the locks, in the order of its code
Program(w) ==
    CASE w = "caller" ->
            log_event("SEND") \o tick_locks \o With("pending_lock", <<>>)
      [] w \in {"reader1", "reader2"} ->
            update_locks \o tick_locks \o With("queue_lock", <<>>)
            \o With("queue_lock", log_event("DELIVER"))
      [] w = "acker" -> update_locks \o With("pending_lock", <<>>)
      [] w = "checker" -> With("pending_lock", log_event("FAILED"))
      [] w = "statistics" ->
            With("pending_lock", <<>>) \o With("queue_lock", <<>>)
            \o get_time_locks

\* The next operation of w on a lock
NextOp(w) == Program(w)[worker[w] + 1]

\* w has done its next operation; after the last one it starts again
Advance(w) ==
    [worker EXCEPT ![w] = IF @ + 1 = Len(Program(w)) THEN 0 ELSE @ + 1]

\* w takes a lock that is free
AcquireLock(w) ==
    /\ NextOp(w).op = "acquire"
    /\ lock[NextOp(w).lock] = Free
    /\ lock' = [lock EXCEPT ![NextOp(w).lock] = w]
    /\ worker' = Advance(w)
    /\ UNCHANGED <<engine, codec, process>>

\* w leaves a with block
ReleaseLock(w) ==
    /\ NextOp(w).op = "release"
    /\ lock' = [lock EXCEPT ![NextOp(w).lock] = Free]
    /\ worker' = Advance(w)
    /\ UNCHANGED <<engine, codec, process>>

-----------------------------------------------------------------------------

(* The state after construction and start *)

\* PendingMessage(message, sent_time, ack_received=set(), retry_count=0);
\* the message is msgs[id], sent_time is abstracted
PendingMessage == [acks |-> {}, retry |-> 0]

\* DistributedProcess.start(known_processes): peer 0 is started with a list
\* of other peers, every other peer with none (as in test_single_process)
\* and learns its first sender from the first Multicast it handles
StartedKnowing(others) ==
    [p \in Peers |-> IF p = 0 THEN {0} \cup others ELSE {p}]

\* ReliableMulticast.__init__, LamportClock.__init__, then start
EngineInit(others) ==
    /\ clock = [p \in Peers |-> 0]
    /\ seqno = [p \in Peers |-> 0]
    /\ known = StartedKnowing(others)
    /\ msgs = <<>>
    /\ pending = [p \in Peers |-> <<>>]
    /\ received = [p \in Peers |-> {}]
    /\ queue = [p \in Peers |-> <<>>]
    /\ delivered = [p \in Peers |-> {}]
    /\ threads = [p \in Peers |-> NoThreads]
    /\ net = EmptyBag
    /\ deliveredLog = [p \in Peers |-> <<>>]
    /\ failedLog = [p \in Peers |-> <<>>]
    /\ ackCount = [p \in Peers |-> [id \in Ids |-> 0]]
    /\ attempts = [id \in Ids |-> [r \in Peers |-> 0]]
    /\ mcLost = [id \in Ids |-> FALSE]
    /\ ackLost = [id \in Ids |-> FALSE]
    /\ sweeps = 0
    /\ running = [p \in Peers |-> TRUE]
    /\ checker = [p \in Peers |-> "sleep"]
    /\ completedLog = [p \in Peers |-> <<>>]
    /\ heldAtCallback = {}
    /\ callers = [p \in Peers |-> EmptyBag]

\* DistributedProcess.__init__: running is False; calls of stop that have
\* returned and calls of send_multicast_message that have raised are
\* counted from here
Constructed == [running |-> FALSE, started |-> "no", stops |-> 0, raised |-> 0]

\* DistributedProcess after a start() that succeeded
Started == [running |-> TRUE, started |-> "ok", stops |-> 0, raised |-> 0]

\* The facade in the state every one of its processes is in, no thread
\* holding a lock or inside a program
FacadeInit(state) ==
    /\ process = [p \in Peers |-> state]
    /\ lock = [l \in Locks |-> Free]
    /\ worker = [w \in Workers |-> 0]

\* The engine started, no message object under conversion
InitWith(others) ==
    /\ EngineInit(others)
    /\ FacadeInit(Started)
    /\ original = None
    /\ json_str = None
    /\ restored = None

\* Peers 0 and 1 run, peer 0 knowing peer 1; every listener is up
Init == InitWith({1}) /\ up = [p \in Peers |-> TRUE]

-----------------------------------------------------------------------------
(* Send path *)

\* The locks a thread holds while it calls a callback: on_message_delivered,
\* on_message_failed, or send_callback, which does the transport I/O
Called(callback, held) == [callback |-> callback, held |-> held]

\* ReliableMulticast.multicast(content, recipients), recipients a list
MulticastTo(p, recipients, responsive) ==
    /\ Len(msgs) < MaxMsgs
    /\ LET timestamp == tick(clock[p])
           id == Len(msgs) + 1
           message == create_multicast(p, timestamp, recipients, seqno[p])
           frame(i) == McFrame(id, message, recipients[i])
       IN /\ clock' = [clock EXCEPT ![p] = timestamp]
          /\ seqno' = [seqno EXCEPT ![p] = @ + 1]
          /\ msgs' = Append(msgs, message)
          /\ pending' = [pending EXCEPT ![p] = Put(@, id, PendingMessage)]
          /\ attempts' = [attempts EXCEPT ![id] =
                 [r \in Peers |-> @[r] + Count(recipients, r)]]
          /\ \E I \in WrittenOf(recipients, responsive) :
                /\ net' = net (+) [f \in {frame(i) : i \in I} |->
                                     Cardinality({i \in I : frame(i) = f})]
                /\ mcLost' = [mcLost EXCEPT ![id] =
                                 @ \/ I # DOMAIN recipients]
          /\ heldAtCallback' =
                IF recipients = <<>> THEN heldAtCallback
                ELSE heldAtCallback \cup {Called("send_callback", {})}
    /\ UNCHANGED <<running, checker, completedLog, callers, codec, facade,
                   known, received, queue, delivered, threads, up,
                   deliveredLog, failedLog, ackCount, ackLost, sweeps>>

\* multicast to every known process, the caller included
Multicast_ToAllKnown(p, responsive) ==
    MulticastTo(p, SetToList(known[p]), responsive)

\* ReliableMulticast.multicast(content), recipients None: every known
\* process but the caller
Multicast(p, responsive) ==
    MulticastTo(p, SetToList(known[p] \ {p}), responsive)

\* A thread inside multicast: its position and its local variables
Caller(pc, recipients, timestamp, sequence_num, loaded, id) ==
    [pc |-> pc, recipients |-> recipients, timestamp |-> timestamp,
     sequence_num |-> sequence_num, loaded |-> loaded, id |-> id]

\* The caller c of p goes on as d
Proceed(p, c, d) ==
    [callers EXCEPT ![p] = (@ (-) SetToBag({c})) (+) SetToBag({d})]

\* multicast(content) is entered by a thread of the application:
\* recipients = list(self.known_processes - {self.process_id})
Call(p) ==
    /\ BagCardinality(callers[p]) < MaxCallers
    /\ Len(msgs) + BagCardinality(callers[p]) < MaxMsgs
    /\ callers' = [callers EXCEPT ![p] = @ (+) SetToBag(
           {Caller("tick", SetToList(known[p] \ {p}), 0, 0, 0, 0)})]
    /\ UNCHANGED <<clock, seqno, known, msgs, pending, received, queue,
                   delivered, threads, net, up, deliveredLog, failedLog,
                   ackCount, attempts, mcLost, ackLost, sweeps, running,
                   checker, completedLog, heldAtCallback, codec, facade>>

\* timestamp = self.lamport_clock.tick()
CallerTick(p) ==
    /\ \E c \in BagToSet(callers[p]) :
        /\ c.pc = "tick"
        /\ clock' = [clock EXCEPT ![p] = tick(@)]
        /\ callers' = Proceed(p, c,
               [c EXCEPT !.pc = "sequence", !.timestamp = tick(clock[p])])
    /\ UNCHANGED <<seqno, known, msgs, pending, received, queue,
                   delivered, threads, net, up, deliveredLog, failedLog,
                   ackCount, attempts, mcLost, ackLost, sweeps, running,
                   checker, completedLog, heldAtCallback, codec, facade>>

\* sequence_num = self.sequence_numbers[self.process_id]
CallerReadSequence(p) ==
    /\ \E c \in BagToSet(callers[p]) :
        /\ c.pc = "sequence"
        /\ callers' = Proceed(p, c,
               [c EXCEPT !.pc = "load", !.sequence_num = seqno[p]])
    /\ UNCHANGED <<clock, seqno, known, msgs, pending, received, queue,
                   delivered, threads, net, up, deliveredLog, failedLog,
                   ackCount, attempts, mcLost, ackLost, sweeps, running,
                   checker, completedLog, heldAtCallback, codec, facade>>

\* self.sequence_numbers[self.process_id] += 1, the read of the item
CallerLoad(p) ==
    /\ \E c \in BagToSet(callers[p]) :
        /\ c.pc = "load"
        /\ callers' = Proceed(p, c,
               [c EXCEPT !.pc = "store", !.loaded = seqno[p]])
    /\ UNCHANGED <<clock, seqno, known, msgs, pending, received, queue,
                   delivered, threads, net, up, deliveredLog, failedLog,
                   ackCount, attempts, mcLost, ackLost, sweeps, running,
                   checker, completedLog, heldAtCallback, codec, facade>>

\* self.sequence_numbers[self.process_id] += 1, the store of the sum
CallerStore(p) ==
    /\ \E c \in BagToSet(callers[p]) :
        /\ c.pc = "store"
        /\ seqno' = [seqno EXCEPT ![p] = c.loaded + 1]
        /\ callers' = Proceed(p, c, [c EXCEPT !.pc = "install"])
    /\ UNCHANGED <<clock, known, msgs, pending, received, queue,
                   delivered, threads, net, up, deliveredLog, failedLog,
                   ackCount, attempts, mcLost, ackLost, sweeps, running,
                   checker, completedLog, heldAtCallback, codec, facade>>

\* create_multicast, then the entry is put into pending_messages under
\* pending_lock
CallerInstall(p) ==
    /\ \E c \in BagToSet(callers[p]) :
        /\ c.pc = "install"
        /\ LET id == Len(msgs) + 1
               message == create_multicast(p, c.timestamp, c.recipients,
                                           c.sequence_num)
           IN /\ msgs' = Append(msgs, message)
              /\ pending' = [pending EXCEPT ![p] = Put(@, id, PendingMessage)]
              /\ callers' = Proceed(p, c, [c EXCEPT !.pc = "send", !.id = id])
    /\ UNCHANGED <<clock, seqno, known, received, queue,
                   delivered, threads, net, up, deliveredLog, failedLog,
                   ackCount, attempts, mcLost, ackLost, sweeps, running,
                   checker, completedLog, heldAtCallback, codec, facade>>

\* The loop over recipients that calls send_callback, then the return of
\* message_id
CallerSend(p, responsive) ==
    /\ \E c \in BagToSet(callers[p]) :
        /\ c.pc = "send"
        /\ LET frame(i) == McFrame(c.id, msgs[c.id], c.recipients[i])
           IN /\ attempts' = [attempts EXCEPT ![c.id] =
                     [r \in Peers |-> @[r] + Count(c.recipients, r)]]
              /\ \E I \in WrittenOf(c.recipients, responsive) :
                    /\ net' = net (+) [f \in {frame(i) : i \in I} |->
                                         Cardinality({i \in I : frame(i) = f})]
                    /\ mcLost' = [mcLost EXCEPT ![c.id] =
                                     @ \/ I # DOMAIN c.recipients]
        /\ heldAtCallback' =
              IF c.recipients = <<>> THEN heldAtCallback
              ELSE heldAtCallback \cup {Called("send_callback", {})}
        /\ callers' = [callers EXCEPT ![p] = @ (-) SetToBag({c})]
    /\ UNCHANGED <<clock, seqno, known, msgs, pending, received, queue,
                   delivered, threads, up, deliveredLog, failedLog,
                   ackCount, ackLost, sweeps, running,
                   checker, completedLog, codec, facade>>

\* The steps of the threads of p that are inside multicast
CallerStep(p, responsive) ==
    \/ CallerTick(p)
    \/ CallerReadSequence(p)
    \/ CallerLoad(p)
    \/ CallerStore(p)
    \/ CallerInstall(p)
    \/ CallerSend(p, responsive)

\* The retry test off by one: one retry more
CanRetry_OneMore(retry_count) == retry_count <= MAX_RETRIES

\* _timeout_checker: a timed-out entry is retried, not failed
CanRetry(retry_count) == retry_count < MAX_RETRIES

\* The set difference the wrong way round
MissingAcks_Inverted(recipients, ack_received) ==
    ack_received \ Range(recipients)

\* _timeout_checker: the recipients a retry sends to
MissingAcks(recipients, ack_received) == Range(recipients) \ ack_received

\* One sweep of _timeout_checker in which the entry of id has timed out:
\* the thread, past the test of its loop and asleep, wakes, takes
\* pending_lock, handles the entry and tests self.running again
Sweep(p, id, responsive) ==
    /\ checker[p] = "sleep"
    /\ checker' = [checker EXCEPT ![p] = IF running[p] THEN "sleep" ELSE "stopped"]
    /\ id \in DOMAIN pending[p]
    /\ LET entry == pending[p][id] IN
       IF CanRetry(entry.retry)
       THEN LET missing_acks == MissingAcks(msgs[id].recips, entry.acks)
                F == {McFrame(id, msgs[id], r) : r \in missing_acks}
            IN /\ pending' = [pending EXCEPT ![p][id].retry = @ + 1]
               /\ attempts' = [attempts EXCEPT ![id] =
                      [r \in Peers |-> IF r \in missing_acks THEN @[r] + 1 ELSE @[r]]]
               /\ \E G \in Written(F, responsive) :
                     /\ net' = net (+) SetToBag(G)
                     /\ mcLost' = [mcLost EXCEPT ![id] = @ \/ G # F]
               /\ heldAtCallback' =
                     IF missing_acks = {} THEN heldAtCallback
                     ELSE heldAtCallback \cup
                             {Called("send_callback", {"pending_lock"})}
               /\ UNCHANGED failedLog
       ELSE /\ pending' = [pending EXCEPT ![p] = Remove(@, id)]
            /\ failedLog' = [failedLog EXCEPT ![p] = Append(@, id)]
            /\ heldAtCallback' = heldAtCallback \cup
                   {Called("on_message_failed", {"pending_lock"})}
            /\ UNCHANGED <<net, attempts, mcLost>>
    /\ UNCHANGED <<running, completedLog, callers, codec, facade,
                   clock, seqno, known, msgs, received, queue, delivered,
                   threads, up, deliveredLog, ackCount, ackLost>>

\* A sweep at a moment when "current_time - sent_time > ack_timeout" holds
\* for the entry of id: at any moment, MaxSweeps times in all, in the lossy
\* specification; once nothing of id is under way in the responsive one
Timeout(p, id, responsive) ==
    /\ IF responsive THEN Quiescent(id) /\ UNCHANGED sweeps
       ELSE sweeps < MaxSweeps /\ sweeps' = sweeps + 1
    /\ Sweep(p, id, responsive)

\* A sweep in which the entry of id has timed out while frames of id may
\* still be under way, fewer than MaxInFlight frames in all; as many sweeps
\* in all as take one entry through every retry to its failure
EarlyTimeout(p, id) ==
    /\ InFlight < MaxInFlight
    /\ sweeps < 1 + MAX_RETRIES
    /\ sweeps' = sweeps + 1
    /\ Sweep(p, id, TRUE)

-----------------------------------------------------------------------------
(* Receive path: one reader thread per accepted connection *)

\* _server_loop accepts, _handle_client reads the frame and decodes it; a
\* message_type that is no member of MessageType raises in from_json, and
\* _handle_client catches the exception and closes the connection.  Else
\* handle_received_message is called: its first statement updates the
\* clock, and it goes on for a Multicast or an Ack only
Receive(p) ==
    /\ BagCardinality(threads[p]) < MaxReaders
    /\ \E f \in BagToSet(net) :
        /\ f.dst = p
        /\ net' = net (-) SetToBag({f})
        /\ IF f.kind \in MessageTypeValues
           THEN /\ clock' = [clock EXCEPT ![p] = update(@, f.ts)]
                /\ threads' =
                      IF f.kind \in {MULTICAST.value, ACK.value}
                      THEN [threads EXCEPT ![p] = @ (+) SetToBag(
                              {Thread(f, IF f.kind = MULTICAST.value
                                         THEN "check" ELSE "ack")})]
                      ELSE threads
           ELSE UNCHANGED <<clock, threads>>
    /\ UNCHANGED <<running, checker, completedLog, heldAtCallback, callers, codec, facade,
                   seqno, known, msgs, pending, received, queue, delivered,
                   up, deliveredLog, failedLog, ackCount, attempts, mcLost, ackLost, sweeps>>

\* _handle_multicast_message, the duplicate test
CheckDuplicate(p) ==
    /\ \E t \in BagToSet(threads[p]) :
        /\ t.pc = "check"
        /\ threads' = IF t.f.id \in received[p] THEN Exit(p, t)
                      ELSE Step(p, t, "store")
    /\ UNCHANGED <<running, checker, completedLog, heldAtCallback, callers, codec, facade,
                   clock, seqno, known, msgs, pending, received, queue,
                   delivered, net, up, deliveredLog, failedLog, ackCount,
                   attempts, mcLost, ackLost, sweeps>>

\* _handle_multicast_message: add_known_process, received_messages[id] = m
Store(p) ==
    /\ \E t \in BagToSet(threads[p]) :
        /\ t.pc = "store"
        /\ known' = [known EXCEPT ![p] = @ \cup {t.f.sender}]
        /\ received' = [received EXCEPT ![p] = @ \cup {t.f.id}]
        /\ threads' = Step(p, t, "emit")
    /\ UNCHANGED <<running, checker, completedLog, heldAtCallback, callers, codec, facade,
                   clock, seqno, msgs, pending, queue, delivered, net, up,
                   deliveredLog, failedLog, ackCount, attempts, mcLost, ackLost, sweeps>>

\* _handle_multicast_message: tick, create_ack, send_callback
EmitAck(p, responsive) ==
    /\ \E t \in BagToSet(threads[p]) :
        /\ t.pc = "emit"
        /\ LET ack_timestamp == tick(clock[p])
               ack == AckFrame(p, ack_timestamp, t.f.id, t.f.sender)
           IN /\ clock' = [clock EXCEPT ![p] = ack_timestamp]
              /\ ackCount' = [ackCount EXCEPT ![p][t.f.id] = @ + 1]
              /\ \E G \in Written({ack}, responsive) :
                    /\ net' = net (+) SetToBag(G)
                    /\ ackLost' = [ackLost EXCEPT ![t.f.id] = @ \/ G = {}]
        /\ threads' = Step(p, t, "enqueue")
        /\ heldAtCallback' = heldAtCallback \cup {Called("send_callback", {})}
    /\ UNCHANGED <<running, checker, completedLog, callers, codec, facade,
                   seqno, known, msgs, pending, received, queue, delivered,
                   up, deliveredLog, failedLog, attempts, mcLost, sweeps>>

\* _add_to_ordered_queue, under queue_lock
Enqueue(p) ==
    /\ \E t \in BagToSet(threads[p]) :
        /\ t.pc = "enqueue"
        /\ queue' = [queue EXCEPT ![p] = InsertOrdered(@, t.f.id)]
        /\ threads' = Step(p, t, "deliver")
    /\ UNCHANGED <<running, checker, completedLog, heldAtCallback, callers, codec, facade,
                   clock, seqno, known, msgs, pending, received, delivered,
                   net, up, deliveredLog, failedLog, ackCount, attempts,
                   mcLost, ackLost, sweeps>>

\* _try_deliver_messages, under queue_lock, callbacks included
Deliver(p) ==
    /\ \E t \in BagToSet(threads[p]) :
        /\ t.pc = "deliver"
        /\ LET r == TryDeliver(queue[p], delivered[p], deliveredLog[p])
           IN /\ queue' = [queue EXCEPT ![p] = r.q]
              /\ delivered' = [delivered EXCEPT ![p] = r.d]
              /\ deliveredLog' = [deliveredLog EXCEPT ![p] = r.log]
              /\ heldAtCallback' =
                    IF r.log = deliveredLog[p] THEN heldAtCallback
                    ELSE heldAtCallback \cup
                            {Called("on_message_delivered", {"queue_lock"})}
        /\ threads' = Exit(p, t)
    /\ UNCHANGED <<running, checker, completedLog, callers, codec, facade,
                   clock, seqno, known, msgs, pending, received, net, up,
                   failedLog, ackCount, attempts, mcLost, ackLost, sweeps>>

\* _handle_ack_message: all Acks received?
AllAcked(ack_received, recipients) ==
    Cardinality(ack_received) >= Len(recipients)

\* _handle_ack_message, under pending_lock
HandleAck(p) ==
    /\ \E t \in BagToSet(threads[p]) :
        /\ t.pc = "ack"
        /\ LET original_msg_id == t.f.id IN
           IF original_msg_id \in DOMAIN pending[p]
           THEN LET acks == pending[p][original_msg_id].acks \cup {t.f.sender}
                IN IF AllAcked(acks, msgs[original_msg_id].recips)
                   THEN /\ pending' = [pending EXCEPT ![p] =
                               Remove(@, original_msg_id)]
                        /\ completedLog' = [completedLog EXCEPT ![p] =
                               Append(@, original_msg_id)]
                   ELSE /\ pending' = [pending EXCEPT
                               ![p][original_msg_id].acks = acks]
                        /\ UNCHANGED completedLog
           ELSE UNCHANGED <<pending, completedLog>>
        /\ threads' = Exit(p, t)
    /\ UNCHANGED <<running, checker, heldAtCallback, callers, codec, facade,
                   clock, seqno, known, msgs, received, queue, delivered,
                   net, up, deliveredLog, failedLog, ackCount, attempts,
                   mcLost, ackLost, sweeps>>

-----------------------------------------------------------------------------
(* Environment *)

\* The listener of p comes up (start_server) and stays up
Recover(p) ==
    /\ ~up[p]
    /\ up' = [up EXCEPT ![p] = TRUE]
    /\ UNCHANGED <<running, checker, completedLog, heldAtCallback, callers, codec, facade,
                   clock, seqno, known, msgs, pending, received, queue,
                   delivered, threads, net, deliveredLog, failedLog,
                   ackCount, attempts, mcLost, ackLost, sweeps>>

\* ReliableMulticast.shutdown: the flag is cleared; the join that follows
\* waits for the timeout thread and changes nothing
Shutdown(p) ==
    /\ running[p]
    /\ running' = [running EXCEPT ![p] = FALSE]
    /\ UNCHANGED <<clock, seqno, known, msgs, pending, received, queue,
                   delivered, threads, net, up, deliveredLog, failedLog,
                   ackCount, attempts, mcLost, ackLost, sweeps, checker,
                   completedLog, heldAtCallback, callers, codec, facade>>

\* _timeout_checker: the thread wakes with the flag cleared, finds no entry
\* timed out, tests self.running and ends
CheckerExit(p) ==
    /\ ~running[p]
    /\ checker[p] = "sleep"
    /\ checker' = [checker EXCEPT ![p] = "stopped"]
    /\ UNCHANGED <<clock, seqno, known, msgs, pending, received, queue,
                   delivered, threads, net, up, deliveredLog, failedLog,
                   ackCount, attempts, mcLost, ackLost, sweeps, running,
                   completedLog, heldAtCallback, callers, codec, facade>>

\* The steps of the reader threads of p
Reader(p, responsive) ==
    \/ Receive(p)
    \/ CheckDuplicate(p)
    \/ Store(p)
    \/ EmitAck(p, responsive)
    \/ Enqueue(p)
    \/ Deliver(p)
    \/ HandleAck(p)

\* The peers that are started in the two-peer specifications
Running == {0, 1}

-----------------------------------------------------------------------------
(* The lossy specification: peers 0 and 1; any connect may fail, an entry  *)
(* may time out at any moment, at most MaxSweeps times in all              *)

Next ==
    \E p \in Running :
        \/ Multicast(p, FALSE)
        \/ \E id \in Ids : Timeout(p, id, FALSE)
        \/ Reader(p, FALSE)

Spec == Init /\ [][Next]_vars

\* The lossy specification with peer 0 the only sender and reader threads
\* that keep running
FairNext ==
    \/ Multicast(0, FALSE)
    \/ \E id \in Ids : Timeout(0, id, FALSE)
    \/ \E p \in Running : Reader(p, FALSE)

FairSpec ==
    /\ Init
    /\ [][FairNext]_vars
    /\ \A p \in Running : WF_vars(Reader(p, FALSE))

-----------------------------------------------------------------------------
(* The ordering specification: peer 0 multicasts to peers 1 and 2; no      *)
(* frame is lost and none is retransmitted                                 *)

OrderInit == InitWith({1, 2}) /\ up = [p \in Peers |-> TRUE]

OrderNext ==
    \/ Multicast(0, TRUE)
    \/ \E p \in Peers : Reader(p, TRUE)

OrderSpec == OrderInit /\ [][OrderNext]_vars

-----------------------------------------------------------------------------
(* The responsive specification: peers 0 and 1; a send fails exactly when  *)
(* the listener it connects to is down, a listener that came up stays up,  *)
(* every frame written is read and handled before the entry it belongs to  *)
(* times out.  The reader threads and the timeout thread keep running.     *)

ResponsiveInit ==
    /\ InitWith({1})
    /\ up \in [Peers -> BOOLEAN]
    /\ up[2]

ResponsiveNext ==
    \E p \in Running :
        \/ Multicast(p, TRUE)
        \/ \E id \in Ids : Timeout(p, id, TRUE)
        \/ Reader(p, TRUE)
        \/ Recover(p)

ResponsiveSpec ==
    /\ ResponsiveInit
    /\ [][ResponsiveNext]_vars
    /\ \A p \in Running :
        /\ WF_vars(Reader(p, TRUE))
        /\ WF_vars(\E id \in Ids : Timeout(p, id, TRUE))

-----------------------------------------------------------------------------
(* The partial specification: the responsive one with peer 0 started       *)
(* knowing peers 1 and 2, and the listener of peer 2 down for good: peer 1 *)
(* acknowledges, peer 2 never does, and the sweep retries for peer 2 alone *)

PartialInit ==
    /\ InitWith({1, 2})
    /\ up \in [Peers -> BOOLEAN]
    /\ ~up[2]

PartialSpec ==
    /\ PartialInit
    /\ [][ResponsiveNext]_vars

-----------------------------------------------------------------------------

(* The racing specification: peer 0 multicasts to peer 1; no frame is lost, *)
(* but an entry may time out while its frames and their Acks are still     *)
(* under way, so that Acks are handled between the sweeps and after the    *)
(* last one                                                                *)

RacingNext ==
    \/ Multicast(0, TRUE)
    \/ \E id \in Ids : EarlyTimeout(0, id)
    \/ \E p \in Running : Reader(p, TRUE)

RacingSpec == Init /\ [][RacingNext]_vars

-----------------------------------------------------------------------------
(* The optional-Ack specification: besides the Multicasts of peer 0, peer  *)
(* 1 is sent Multicasts whose requires_ack is false by peer 2, a sender    *)
(* that builds its MulticastMessage itself                                 *)

\* The timestamps peer 2 stamps its Multicasts with
ForeignTimestamps == {1, 2}

\* A frame carrying MulticastMessage(..., requires_ack=False) from peer 2 is
\* written to a connection to p
InboundWithoutAck(p) ==
    /\ Len(msgs) < MaxMsgs
    /\ InFlight < MaxInFlight
    /\ \E timestamp \in ForeignTimestamps :
          LET id == Len(msgs) + 1
              message == [create_multicast(2, timestamp, <<p>>, 0)
                             EXCEPT !.requires_ack = FALSE]
          IN /\ msgs' = Append(msgs, message)
             /\ net' = net (+) SetToBag({McFrame(id, message, p)})
    /\ UNCHANGED <<clock, seqno, known, pending, received, queue, delivered,
                   threads, up, deliveredLog, failedLog, ackCount, attempts,
                   mcLost, ackLost, sweeps, running, checker, completedLog,
                   heldAtCallback, callers, codec, facade>>

OptionalAckNext ==
    \/ Multicast(0, FALSE)
    \/ InboundWithoutAck(1)
    \/ \E p \in Running : Reader(p, FALSE)

OptionalAckSpec == Init /\ [][OptionalAckNext]_vars

-----------------------------------------------------------------------------
(* The sequential specification: the lossy one with connections handled  *)
(* one at a time at every peer, a frame being read only when the handler   *)
(* of the frame before has returned                                        *)

\* A frame is read while no reader thread of p is inside a handler
ReceiveAlone(p) ==
    /\ threads[p] = NoThreads
    /\ Receive(p)

\* The steps of the one reader of p
SequentialReader(p, responsive) ==
    \/ ReceiveAlone(p)
    \/ CheckDuplicate(p)
    \/ Store(p)
    \/ EmitAck(p, responsive)
    \/ Enqueue(p)
    \/ Deliver(p)
    \/ HandleAck(p)

SequentialNext ==
    \E p \in Running :
        \/ Multicast(p, FALSE)
        \/ \E id \in Ids : Timeout(p, id, FALSE)
        \/ SequentialReader(p, FALSE)

SequentialSpec == Init /\ [][SequentialNext]_vars

-----------------------------------------------------------------------------
(* The lock specification: the threads of one process take and release   *)
(* the locks, each as its program says                                     *)

LockNext == \E w \in Workers : AcquireLock(w) \/ ReleaseLock(w)

LockSpec == Init /\ [][LockNext]_vars

-----------------------------------------------------------------------------
(* The lifecycle specification: peers 0 and 1 are constructed, then       *)
(* started, used and stopped through the facade DistributedProcess in any  *)
(* order; no frame is lost while the listener of its recipient is up       *)

\* The guard of send_multicast_message that never raises
Raises_Never(process_running) == FALSE

\* send_multicast_message: "if not self.running: raise RuntimeError"
Raises(process_running) == ~process_running

\* start(known_processes): start_server, add_known_process for every
\* other process, running = True; or start_server raises (the port is
\* taken), the handler calls stop(), which returns at once because running
\* is False, and raises again
Start(p) ==
    /\ process[p].started = "no"
    /\ \/ /\ up' = [up EXCEPT ![p] = TRUE]
          /\ known' = [known EXCEPT ![p] = @ \cup StartedKnowing({1})[p]]
          /\ process' = [process EXCEPT ![p].running = TRUE,
                                        ![p].started = "ok"]
       \/ /\ process' = [process EXCEPT ![p].started = "failed",
                                        ![p].stops = @ + 1]
          /\ UNCHANGED <<up, known>>
    /\ UNCHANGED <<clock, seqno, msgs, pending, received, queue, delivered,
                   threads, net, deliveredLog, failedLog, ackCount, attempts,
                   mcLost, ackLost, sweeps, running, checker, completedLog,
                   heldAtCallback, callers, codec, lock, worker>>

\* stop(): returns at once when running is False; else clears it, calls
\* ReliableMulticast.shutdown, which clears the flag of the engine, and
\* stop_server, which closes the listener
Stop(p) ==
    /\ process[p].stops < MaxStops
    /\ IF ~process[p].running
       THEN /\ process' = [process EXCEPT ![p].stops = @ + 1]
            /\ UNCHANGED <<running, up>>
       ELSE /\ process' = [process EXCEPT ![p].running = FALSE,
                                          ![p].stops = @ + 1]
            /\ running' = [running EXCEPT ![p] = FALSE]
            /\ up' = [up EXCEPT ![p] = FALSE]
    /\ UNCHANGED <<clock, seqno, known, msgs, pending, received, queue,
                   delivered, threads, net, deliveredLog, failedLog, ackCount,
                   attempts, mcLost, ackLost, sweeps, checker, completedLog,
                   heldAtCallback, callers, codec, lock, worker>>

\* send_multicast_message(content): raises when the process is not
\* running, else logs the event and calls multicast(content, None)
SendMulticastMessage(p, responsive) ==
    IF Raises(process[p].running)
    THEN /\ process[p].raised < MaxRaised
         /\ process' = [process EXCEPT ![p].raised = @ + 1]
         /\ UNCHANGED <<engine, codec, lock, worker>>
    ELSE Multicast(p, responsive)

LifecycleInit ==
    /\ EngineInit({})
    /\ FacadeInit(Constructed)
    /\ up = [p \in Peers |-> FALSE]
    /\ original = None
    /\ json_str = None
    /\ restored = None

LifecycleNext ==
    \E p \in Running :
        \/ Start(p)
        \/ Stop(p)
        \/ SendMulticastMessage(p, TRUE)
        \/ Reader(p, TRUE)

LifecycleSpec == LifecycleInit /\ [][LifecycleNext]_vars

-----------------------------------------------------------------------------
(* The foreign-type specification: peer 0 multicasts to peer 1, and peer  *)
(* 2, outside the engine, writes records of other message types to peer 1  *)

ForeignTypes == {"heartbeat", "join", "leave", "status"}

\* A frame carrying a record with message_type type from peer 2 is written
\* to a connection to p, while the clock of p is below MaxStamp
InboundOfType(p) ==
    /\ InFlight < MaxInFlight
    /\ clock[p] < MaxStamp
    /\ \E type \in ForeignTypes, timestamp \in ForeignTimestamps :
          net' = net (+) SetToBag({[kind |-> type, id |-> 0, sender |-> 2,
                                    ts |-> timestamp, dst |-> p]})
    /\ UNCHANGED <<clock, seqno, known, msgs, pending, received, queue,
                   delivered, threads, up, deliveredLog, failedLog, ackCount,
                   attempts, mcLost, ackLost, sweeps, running, checker,
                   completedLog, heldAtCallback, callers, codec, facade>>

ForeignTypeNext ==
    \/ Multicast(0, FALSE)
    \/ InboundOfType(1)
    \/ \E p \in Running : Reader(p, FALSE)

ForeignTypeSpec == Init /\ [][ForeignTypeNext]_vars

-----------------------------------------------------------------------------
(* The shutdown specification: the responsive specification in which a     *)
(* peer may be shut down at any moment                                     *)

ShutdownNext ==
    \/ ResponsiveNext
    \/ \E p \in Running : Shutdown(p) \/ CheckerExit(p)

ShutdownSpec == ResponsiveInit /\ [][ShutdownNext]_vars

-----------------------------------------------------------------------------
(* The recipient-list specification: the responsive specification in which *)
(* peer 0 passes the recipient list to multicast itself                    *)

\* The lists passed as recipients
RecipientLists == {<<1>>, <<1, 1>>}

RecipientListNext ==
    \/ \E recipients \in RecipientLists : MulticastTo(0, recipients, TRUE)
    \/ \E id \in Ids : Timeout(0, id, TRUE)
    \/ \E p \in Running : Reader(p, TRUE)

RecipientListSpec == Init /\ [][RecipientListNext]_vars

-----------------------------------------------------------------------------
(* The caller specification: up to MaxCallers threads of the application   *)
(* are inside multicast of peer 0 at the same time, each taken statement   *)
(* by statement; no frame is lost and no entry times out                   *)

CallerNext ==
    \/ Call(0)
    \/ CallerStep(0, TRUE)
    \/ \E p \in Running : Reader(p, TRUE)

CallerSpec == Init /\ [][CallerNext]_vars

-----------------------------------------------------------------------------
(* The install specification: the caller specification started with the   *)
(* listener of peer 1 up or down, so that every send of a call may fail    *)

InstallInit ==
    /\ InitWith({1})
    /\ up \in [Peers -> BOOLEAN]
    /\ up[0]
    /\ up[2]

InstallSpec == InstallInit /\ [][CallerNext]_vars

-----------------------------------------------------------------------------

(* The serialization specification: one message object, built by one of    *)
(* the two constructors from sample field values, is written with to_json  *)
(* and the text is read back with from_json                                *)

SampleMessageIds == {"", "m1", "m2"}
SampleSenders == {0, 1}
SampleTimestamps == {0, 5}
SampleContents == {"", "Teste"}
SampleRecipients == {<<>>, <<1>>, <<1, 2>>, <<2, 2>>}
SampleSequenceNumbers == {0, 1}

\* Every MulticastMessage and AckMessage over the sample values
SampleMessages ==
    {MulticastMessage(i, s, MULTICAST, t, c, r, n, a) :
        i \in SampleMessageIds, s \in SampleSenders, t \in SampleTimestamps,
        c \in SampleContents, r \in SampleRecipients,
        n \in SampleSequenceNumbers, a \in BOOLEAN}
    \cup
    {AckMessage(i, s, ACK, t, c, r, o) :
        i \in SampleMessageIds, s \in SampleSenders, t \in SampleTimestamps,
        c \in SampleContents \cup {"ACK"}, r \in SampleRecipients,
        o \in SampleMessageIds}

SerializationInit ==
    /\ EngineInit({1})
    /\ FacadeInit(Started)
    /\ up = [p \in Peers |-> TRUE]
    /\ original \in SampleMessages
    /\ json_str = None
    /\ restored = None

\* json_str = msg.to_json()
Serialize ==
    /\ json_str = None
    /\ json_str' = to_json(original)
    /\ UNCHANGED <<engine, facade, original, restored>>

\* msg_restored = Message.from_json(json_str)
Deserialize ==
    /\ json_str # None
    /\ restored = None
    /\ restored' = from_json(json_str)
    /\ UNCHANGED <<engine, facade, original, json_str>>

SerializationNext == Serialize \/ Deserialize

SerializationSpec == SerializationInit /\ [][SerializationNext]_vars

-----------------------------------------------------------------------------
(* Properties *)

\* The place of id in a log that holds it
Pos(log, id) == SetMin({i \in 1..Len(log) : log[i] = id})

\* Some reader thread of p is handling a frame of Multicast id
Handling(p, id) ==
    \E t \in BagToSet(threads[p]) : t.f.kind = "multicast" /\ t.f.id = id

\* C1: any two Multicasts that two peers both deliver are delivered by both
\* in the same relative order.
AgreementOnOrder ==
    \A p, q \in Peers : \A m1, m2 \in Ids :
        ( /\ m1 \in Range(deliveredLog[p]) /\ m2 \in Range(deliveredLog[p])
          /\ m1 \in Range(deliveredLog[q]) /\ m2 \in Range(deliveredLog[q]) )
        => ( Pos(deliveredLog[p], m1) < Pos(deliveredLog[p], m2)
             <=> Pos(deliveredLog[q], m1) < Pos(deliveredLog[q], m2) )

\* C2: at every peer the messages handed to on_delivered are ascending in
\* (timestamp, sender_id): a message delivered earlier strictly precedes
\* every message delivered later.
DeliveryAscending ==
    \A p \in Peers : \A i, j \in 1..Len(deliveredLog[p]) :
        i < j => Precedes(deliveredLog[p][i], deliveredLog[p][j])

\* C3: at every peer on_delivered is called at most once per message_id,
\* and no step takes a message_id out of the delivered set, however many
\* copies arrive and however the reader threads interleave.
AtMostOnceDelivery ==
    /\ [](\A p \in Peers : \A id \in Ids : Count(deliveredLog[p], id) <= 1)
    /\ [][\A p \in Peers : delivered[p] \subseteq delivered'[p]]_vars

\* C3 witness: two readers of one peer both accepted a copy of the same
\* Multicast; one copy was delivered and the other still sits in the queue.
SecondCopyRefused ==
    \E p \in Peers : \E id \in Ids :
        /\ ackCount[p][id] >= 2
        /\ id \in delivered[p]
        /\ id \in Range(queue[p])
        /\ Count(deliveredLog[p], id) = 1

\* C4: a peer that has received a Multicast, in however many copies, has
\* emitted exactly one Ack for it: never more than one, and one as soon as
\* no reader is still handling a copy.
ExactlyOneAck ==
    \A p \in Peers : \A id \in Ids :
        /\ ackCount[p][id] <= 1
        /\ (id \in received[p] /\ ~Handling(p, id)) => ackCount[p][id] = 1

\* A step in which p performs a clock operation: multicast ticks, a reader
\* that starts updates, a reader that emits an Ack ticks
ClockOperation(p) ==
    \/ seqno'[p] # seqno[p]
    \/ BagCardinality(threads'[p]) > BagCardinality(threads[p])
    \/ ackCount'[p] # ackCount[p]

\* C9: every tick and update of a peer returns a value strictly greater
\* than the one before, and the stored clock never decreases.
ClockStrictlyIncreasing ==
    [][\A p \in Peers :
          /\ clock'[p] >= clock[p]
          /\ ClockOperation(p) => clock'[p] > clock[p]]_vars

\* C9 witness: a peer that ticked for a multicast of its own and for an
\* Ack, and whose clock was pushed forward by an update in between.
TickedAndUpdated ==
    \E p \in Peers : \E id \in Ids :
        /\ seqno[p] > 0
        /\ ackCount[p][id] > 0
        /\ clock[p] > seqno[p] + ackCount[p][id] + 1

\* C10: a reader that takes a frame off a connection leaves its peer's
\* clock at max(clock before, frame timestamp) + 1, greater than both; and
\* the clock of a peer stays above the timestamp of every message one of
\* its readers is handling.
ClockMergeOnReceive ==
    /\ [][\A f \in BagToSet(net) :
             net' = net (-) SetToBag({f}) =>
                /\ clock'[f.dst] = Max(clock[f.dst], f.ts) + 1
                /\ clock'[f.dst] > f.ts
                /\ clock'[f.dst] > clock[f.dst]]_vars
    /\ [](\A p \in Peers : \A t \in BagToSet(threads[p]) : clock[p] > t.f.ts)

\* C10 witness: a reader is handling a message stamped ahead of its peer's
\* clock (the received timestamp won the max), while the peer has already
\* handled a message stamped behind its clock (the local clock won).
MergedBothWays ==
    \E p \in Peers : \E t \in BagToSet(threads[p]) :
        /\ clock[p] = t.f.ts + 1
        /\ t.f.ts >= 2
        /\ \E id \in received[p] : msgs[id].ts < t.f.ts


\* Multicast id has been created
Created(id) == id <= Len(msgs)

\* on_message_failed was called for id at p
Failed(p, id) == id \in Range(failedLog[p])

\* C5: a multicast none of whose frames was lost (every recipient reachable
\* and responsive), the one with no recipient included, is never reported
\* through on_failed.
AckCompletionNeverFails ==
    \A id \in Ids :
        (Created(id) /\ ~mcLost[id] /\ ~ackLost[id])
        => ~Failed(msgs[id].sender, id)

\* C6: for a multicast with an empty recipient list neither on_delivered
\* nor on_failed is ever called at the sender.
EmptyMulticastSilent ==
    \A id \in Ids :
        (Created(id) /\ msgs[id].recips = <<>>)
        => /\ ~Failed(msgs[id].sender, id)
           /\ id \notin Range(deliveredLog[msgs[id].sender])

\* C7: a Multicast is handed to the transport at most 1 + MAX_RETRIES times
\* per recipient; on_failed is called at most once per message, only after
\* every recipient still missing got that many attempts, and after it the
\* message is never sent again; and an entry for which no Ack arrives does
\* end in on_failed.
RetryExhaustion ==
    /\ [](\A id \in Ids : \A r \in Peers :
            attempts[id][r] <= 1 + MAX_RETRIES)
    /\ [](\A p \in Peers : \A id \in Ids : Count(failedLog[p], id) <= 1)
    /\ [][\A p \in Peers : \A id \in Ids :
            /\ (Failed(p, id)' /\ ~Failed(p, id)) =>
                  /\ id \in DOMAIN pending[p]
                  /\ \A r \in Range(msgs[id].recips) \ pending[p][id].acks :
                        attempts[id][r] = 1 + MAX_RETRIES
            /\ Failed(p, id) =>
                  /\ attempts'[id] = attempts[id]
                  /\ \A r \in Peers :
                        CopiesIn(McFrame(id, msgs[id], r), net')
                           <= CopiesIn(McFrame(id, msgs[id], r), net)]_vars
    /\ \A p \in Peers : \A id \in Ids :
          (id \in DOMAIN pending[p] /\ pending[p][id].acks = {})
          ~> \/ Failed(p, id)
             \/ id \in DOMAIN pending[p] /\ pending[p][id].acks # {}
             \/ id \notin DOMAIN pending[p] /\ ~Failed(p, id)

\* C7 witness: a Multicast with a recipient was given up after four
\* attempts, none acknowledged.
GivenUpAfterAllRetries ==
    \E id \in Ids :
        /\ Created(id)
        /\ Failed(msgs[id].sender, id)
        /\ msgs[id].recips # <<>>
        /\ \A r \in Range(msgs[id].recips) :
              attempts[id][r] = 1 + MAX_RETRIES

\* The entry of id is still pending with retries left, a send of id has
\* failed, no Ack for it was lost, and by now the sender and every recipient
\* are reachable
LostAndRecovered(id) ==
    /\ Created(id)
    /\ id \in DOMAIN pending[msgs[id].sender]
    /\ pending[msgs[id].sender][id].retry < MAX_RETRIES
    /\ mcLost[id]
    /\ ~ackLost[id]
    /\ up[msgs[id].sender]
    /\ \A r \in Range(msgs[id].recips) : up[r]

\* The entry of id left the pending table without on_failed, and every
\* recipient has delivered id exactly once
CompletedAndDelivered(id) ==
    /\ Created(id)
    /\ id \notin DOMAIN pending[msgs[id].sender]
    /\ ~Failed(msgs[id].sender, id)
    /\ \A r \in Range(msgs[id].recips) : Count(deliveredLog[r], id) = 1

\* C8: when a transmission of m was lost to an unreachable recipient and the
\* recipient is reachable again before the retry budget of m is used up,
\* the recipient delivers m exactly once and the entry of m is removed by
\* the Acks, not by on_failed.
RetryToSuccess ==
    \A id \in Ids : LostAndRecovered(id) ~> CompletedAndDelivered(id)

\* C8 witness: a Multicast whose first transmission failed was completed by
\* the Ack that answered a retransmission.
CompletedAfterLoss ==
    \E id \in Ids :
        /\ CompletedAndDelivered(id)
        /\ msgs[id].recips # <<>>
        /\ mcLost[id]
        /\ attempts[id][msgs[id].recips[1]] >= 2

\* C11: a multicast call advances the caller's clock by exactly 1 and the
\* Multicast it creates carries the resulting value and the caller's
\* sequence number before the call; on a fresh peer (clock 0, nothing sent)
\* these are timestamp 1 and sequence number 0.
MulticastStamps ==
    [][\A p \in Peers :
          seqno'[p] # seqno[p] =>
             LET m == msgs'[Len(msgs')]
             IN /\ Len(msgs') = Len(msgs) + 1
                /\ clock'[p] = clock[p] + 1
                /\ m.sender = p
                /\ m.ts = clock'[p]
                /\ m.seq = seqno[p]
                /\ seqno'[p] = seqno[p] + 1
                /\ (clock[p] = 0 /\ seqno[p] = 0) => (m.ts = 1 /\ m.seq = 0)]_vars

\* C11 witness: a peer's first multicast, stamped 1 with sequence number 0,
\* and its second one, stamped well after the Ack it handled in between.
FirstAndSecondMulticast ==
    \E a, b \in Ids :
        /\ Created(a) /\ Created(b)
        /\ msgs[a].sender = msgs[b].sender
        /\ msgs[a].seq = 0 /\ msgs[a].ts = 1
        /\ msgs[b].seq = 1 /\ msgs[b].ts > 2

\* C12: for every Multicast and every Ack object m, from_json(to_json(m)) is
\* an object of the same class with the same fields, each equal to the
\* field of m.
SerializationRoundTrip ==
    restored # None =>
        /\ restored.class = original.class
        /\ DOMAIN restored = DOMAIN original
        /\ \A field \in DOMAIN original : restored[field] = original[field]

\* C12 witness: a Multicast whose recipients, sequence number and
\* requires_ack all differ from the defaults of from_json has been written
\* and read back.
NonDefaultMulticastRestored ==
    /\ restored # None
    /\ original.class = "MulticastMessage"
    /\ original.recipients = <<1, 2>>
    /\ original.sequence_number = 1
    /\ ~original.requires_ack
    /\ json_str.message_type = "multicast"

\* C13: handling a Multicast frame a second time changes neither the
\* delivered set nor the ordering queue of the peer: as after one handling,
\* the message is in the queue once or has been delivered once, never both
\* and never twice.
ReceiveIdempotent ==
    \A p \in Peers : \A id \in Ids :
        Count(queue[p], id) + Count(deliveredLog[p], id) <= 1

\* The entry of id left the pending table of p through _handle_ack_message
Completed(p, id) == id \in Range(completedLog[p])

\* C14: the entry of a Multicast leaves the pending table of its sender
\* exactly once and by one cause only: it is in the table until it is
\* either completed by the Acks or given up with on_failed, never both,
\* neither twice, and it does not come back; it is completed only with all
\* Acks counted and given up only with the retry budget used up.
PendingExitsOnce ==
    /\ [](\A p \in Peers : \A id \in Ids :
            /\ Count(completedLog[p], id) + Count(failedLog[p], id) <= 1
            /\ (Created(id) /\ msgs[id].sender = p) =>
                  (id \in DOMAIN pending[p] <=> ~(Completed(p, id) \/ Failed(p, id))))
    /\ [][\A p \in Peers : \A id \in Ids :
            /\ (Created(id) /\ id \notin DOMAIN pending[p])
                  => id \notin DOMAIN pending'[p]
            /\ (Failed(p, id)' /\ ~Failed(p, id)) =>
                  /\ id \in DOMAIN pending[p]
                  /\ pending[p][id].retry = MAX_RETRIES
            /\ (Completed(p, id)' /\ ~Completed(p, id)) =>
                  /\ id \in DOMAIN pending[p]
                  /\ \E t \in BagToSet(threads[p]) :
                        /\ t.pc = "ack" /\ t.f.id = id
                        /\ AllAcked(pending[p][id].acks \cup {t.f.sender},
                                    msgs[id].recips)]_vars

\* C14 witness: an Ack for a Multicast is about to be handled after the
\* sweep has given the Multicast up, and another Multicast of the same
\* sender was completed by its Ack.
AckAfterFailureAndCompletion ==
    \E a, b \in Ids : \E t \in BagToSet(threads[0]) :
        /\ Failed(0, a)
        /\ t.pc = "ack" /\ t.f.id = a
        /\ Completed(0, b)

\* C15: a peer that receives a Multicast whose requires_ack is false
\* delivers it and emits no Ack for it.
NoAckUnlessRequired ==
    \A p \in Peers : \A id \in Ids :
        (Created(id) /\ ~msgs[id].requires_ack) => ackCount[p][id] = 0

\* C16: once shutdown has cleared the running flag of a peer, no entry
\* outstanding in its pending table is retransmitted or reported through
\* on_failed.
NoSweepAfterShutdown ==
    [][\A p \in Peers :
          ~running[p] =>
             /\ failedLog'[p] = failedLog[p]
             /\ \A id \in DOMAIN pending[p] : attempts'[id] = attempts[id]]_vars

\* C17: on_delivered and on_failed are called only by a thread that holds
\* neither queue_lock nor pending_lock.
CallbacksOutsideLocks ==
    \A call \in heldAtCallback :
        call.callback \in {"on_message_delivered", "on_message_failed"}
        => call.held = {}

\* C18: a Multicast that is in the ordering queue of a peer is eventually
\* delivered at that peer, the reader threads running on.
QueuedEventuallyDelivered ==
    \A p \in Peers : \A id \in Ids :
        (id \in Range(queue[p])) ~> (id \in delivered[p])

\* C19: the entry of a multicast with an empty recipient list completes at
\* once: it is not left in the pending table of the sender, and it is never
\* handled by the timeout sweep.
EmptyMulticastCompletesAtOnce ==
    \A id \in Ids :
        (Created(id) /\ msgs[id].recips = <<>>)
        => /\ id \notin DOMAIN pending[msgs[id].sender]
           /\ ~Failed(msgs[id].sender, id)

\* C20: when an Ack for a pending Multicast is handled, the entry is removed
\* if and only if the peers that have acknowledged now include every
\* recipient of the message, whatever the length of the recipient list.
AckCompletionBySetInclusion ==
    [][\A p \in Peers : \A t \in BagToSet(threads[p]) :
          ( /\ t.pc = "ack"
            /\ t.f.id \in DOMAIN pending[p]
            /\ threads'[p] = threads[p] (-) SetToBag({t}) )
          => ( t.f.id \notin DOMAIN pending'[p]
               <=> Range(msgs[t.f.id].recips)
                      \subseteq pending[p][t.f.id].acks \cup {t.f.sender} )]_vars

\* C21: in every entry of every pending table, the peers recorded in
\* ack_received are recipients of the entry's message.
AcksFromRecipients ==
    \A p \in Peers : \A id \in DOMAIN pending[p] :
        pending[p][id].acks \subseteq Range(msgs[id].recips)

\* C21 witness: an entry that one of its two recipients has acknowledged
\* and the other has not.
PartlyAcknowledged ==
    \E p \in Peers : \E id \in DOMAIN pending[p] :
        /\ Cardinality(Range(msgs[id].recips)) = 2
        /\ Cardinality(pending[p][id].acks) = 1

\* C22: an Ack whose original_message_id has no entry in the pending table
\* of the peer that receives it is ignored: reading it advances the peer's
\* clock and nothing else, and handling it leaves the pending table, the
\* ordering queue, the delivered set and the clock as they are and calls no
\* callback.
StrayAckIgnored ==
    [][\A p \in Peers :
          /\ \A f \in BagToSet(net) :
                ( /\ f.kind = "acknowledgment" /\ f.dst = p
                  /\ f.id \notin DOMAIN pending[p]
                  /\ net' = net (-) SetToBag({f}) )
                => /\ clock'[p] > clock[p]
                   /\ UNCHANGED <<pending, queue, delivered, deliveredLog,
                                  failedLog, completedLog, heldAtCallback>>
          /\ \A t \in BagToSet(threads[p]) :
                ( /\ t.pc = "ack"
                  /\ t.f.id \notin DOMAIN pending[p]
                  /\ threads'[p] = threads[p] (-) SetToBag({t}) )
                => UNCHANGED <<clock, pending, queue, delivered, deliveredLog,
                               failedLog, completedLog, heldAtCallback, net>>]_vars

\* C22 witness: a Multicast was acknowledged twice by its recipient and
\* completed by one of the Acks; the other Ack has been read and handled
\* too.
SecondAckHandledAfterCompletion ==
    \E id \in Ids :
        /\ Completed(0, id)
        /\ ackCount[1][id] >= 2
        /\ Quiescent(id)

\* C23: at the step in which a peer delivers a Multicast, the peer has
\* emitted exactly one Ack for it.
AckBeforeDelivery ==
    [][\A p \in Peers : \A id \in Ids :
          (id \notin delivered[p] /\ id \in delivered'[p])
          => ackCount[p][id] = 1]_vars

\* C24: the Ack for a Multicast m is stamped by a tick taken after the
\* update for m: the step that emits it raises the clock by one and stamps
\* the Ack with the result, every Ack carries a timestamp greater than
\* that of the Multicast it acknowledges, and update followed at once by
\* tick gives max(clock before, m.timestamp) + 2 (12 for clock 2 and
\* timestamp 10).
AckStampedAfterUpdate ==
    /\ [](\A f \in BagToSet(net) :
            f.kind = "acknowledgment" => f.ts > msgs[f.id].ts)
    /\ [][\A p \in Peers : \A t \in BagToSet(threads[p]) :
            (t.pc = "emit" /\ threads' = Step(p, t, "enqueue"))
            => /\ clock[p] > t.f.ts
               /\ clock'[p] = clock[p] + 1
               /\ \A f \in BagToSet(net') :
                     CopiesIn(f, net') > CopiesIn(f, net) =>
                        /\ f.kind = "acknowledgment" /\ f.id = t.f.id
                        /\ f.sender = p /\ f.dst = t.f.sender
                        /\ f.ts = clock'[p]]_vars
    /\ [](/\ tick(update(2, 10)) = 12
          /\ \A c, ts \in 0..MaxStamp : tick(update(c, ts)) = Max(c, ts) + 2)

\* C24 witness: an Ack on its way that was stamped two above the Multicast
\* it acknowledges, by a peer whose clock was behind, and one stamped
\* higher, by a peer whose clock was ahead.
AcksStampedBothWays ==
    \E f, g \in BagToSet(net) :
        /\ f.kind = "acknowledgment" /\ f.ts = msgs[f.id].ts + 2
        /\ g.kind = "acknowledgment" /\ g.ts > msgs[g.id].ts + 2

\* The Multicasts created so far by peer p
CreatedBy(p) == {id \in Ids : Created(id) /\ msgs[id].sender = p}

\* C25: the sequence numbers of the Multicasts of one peer are pairwise
\* distinct, grow in the order of the Multicasts' timestamps, and are 0, 1,
\* 2, ... without a gap once no thread is inside multicast, however the
\* threads calling multicast interleave.
SequenceNumbersInOrder ==
    \A p \in Peers :
        /\ \A a, b \in CreatedBy(p) :
              a # b => /\ msgs[a].seq # msgs[b].seq
                       /\ msgs[a].ts < msgs[b].ts <=> msgs[a].seq < msgs[b].seq
        /\ callers[p] = EmptyBag =>
              \A a \in CreatedBy(p) : msgs[a].seq < Cardinality(CreatedBy(p))

\* C26: no thread holds pending_lock while it hands a message to the
\* transport.
SendsOutsidePendingLock ==
    \A call \in heldAtCallback :
        call.callback = "send_callback" => "pending_lock" \notin call.held

\* C27: the ordering queue of a peer never holds two entries with the same
\* message_id, and never holds an entry whose message_id is in the
\* delivered set, however the reader threads interleave.
QueueHoldsNoDuplicate ==
    \A p \in Peers : \A id \in Ids :
        /\ Count(queue[p], id) <= 1
        /\ id \in delivered[p] => id \notin Range(queue[p])

\* The ordering key of a Multicast
Key(id) == <<msgs[id].ts, msgs[id].sender>>

\* The Multicasts p delivers in this step
DeliveredNow(p) == delivered'[p] \ delivered[p]

\* C28: a Multicast is delivered only when it is the only entry of the
\* ordering queue with its (timestamp, sender_id) key.
HeadDeliveredOnlyIfUnique ==
    [][\A p \in Peers : \A id \in DeliveredNow(p) :
          Cardinality({i \in 1..Len(queue[p]) : Key(queue[p][i]) = Key(id)}) = 1]_vars


\* The Multicasts p holds undelivered at the moment it delivers the k-th
\* entry of its delivery log in this step: those it delivers later in the
\* step and those it leaves in the queue
HeldAtDelivery(p, k) == {deliveredLog'[p][j] : j \in (k + 1)..Len(deliveredLog'[p])} \cup Range(queue'[p])

\* C29: at the moment a peer delivers a Multicast, no Multicast in its
\* ordering queue strictly precedes it in (timestamp, sender_id) order.
NoQueuedPredecessorAtDelivery ==
    [][\A p \in Peers : \A k \in (Len(deliveredLog[p]) + 1)..Len(deliveredLog'[p]) :
          \A other \in HeldAtDelivery(p, k) : ~Precedes(other, deliveredLog'[p][k])]_vars

\* Witness for C29: a peer has delivered one Multicast while it holds
\* another one, which does not precede the first, in its queue.
DeliveredAheadOfQueued ==
    \E p \in Peers : \E a, b \in Ids :
        /\ a # b
        /\ a \in delivered[p]
        /\ b \in Range(queue[p])
        /\ Precedes(a, b)


\* The sweep of p retries the entry of id in this step
Retried(p, id) ==
    /\ id \in DOMAIN pending[p]
    /\ id \in DOMAIN pending'[p]
    /\ pending'[p][id].retry # pending[p][id].retry

UnderWay == BagToSet(net) \cup UNION {{t.f : t \in BagToSet(threads[p])} : p \in Peers}

\* The entry of Multicast id has been put into the table of its sender
Installed(id) ==
    /\ id \in DOMAIN msgs
    /\ \/ id \in DOMAIN pending[msgs[id].sender]
       \/ id \in Range(completedLog[msgs[id].sender])
       \/ id \in Range(failedLog[msgs[id].sender])

\* C31: a caller of multicast that is about to send has its entry in the
\* pending table, with no Acks and retry_count 0; and every frame under way
\* or being handled, an Ack at the sender included, is of a Multicast whose
\* entry has been installed.
PendingInstalledBeforeSend ==
    /\ \A p \in Peers : \A c \in BagToSet(callers[p]) :
          c.pc = "send" =>
             c.id \in DOMAIN pending[p] /\ pending[p][c.id] = PendingMessage
    /\ \A f \in UnderWay : Installed(f.id)

\* Witness for C31: multicast has returned although its only send failed,
\* and the entry is in the table without an Ack.
ReturnedAlthoughEverySendFailed ==
    \E id \in DOMAIN msgs :
        /\ callers[0] = EmptyBag
        /\ msgs[id].sender = 0
        /\ msgs[id].recips = <<1>>
        /\ attempts[id][1] = 1
        /\ mcLost[id]
        /\ id \in DOMAIN pending[0]
        /\ pending[0][id] = PendingMessage


\* p takes the frame f off its connection in this step
Takes(p, f) ==
    /\ f \in BagToSet(net)
    /\ f.dst = p
    /\ net' = net (-) SetToBag({f})

\* C32: a record whose message_type is neither multicast nor acknowledgment
\* changes nothing at the peer that reads it: its clock, pending table,
\* ordering queue and delivered set stay as they are.
ForeignTypeChangesNothing ==
    [][\A p \in Peers : \A f \in BagToSet(net) :
          Takes(p, f) /\ f.kind \notin {MULTICAST.value, ACK.value} =>
             /\ clock'[p] = clock[p]
             /\ pending'[p] = pending[p]
             /\ queue'[p] = queue[p]
             /\ delivered'[p] = delivered[p]]_vars


\* The Multicasts created in this step
CreatedNow == (DOMAIN msgs') \ (DOMAIN msgs)

\* C33: the known-peer set of a peer holds the peer itself and never
\* shrinks; it holds the sender of every Multicast the peer has stored; and
\* a multicast called without recipients targets every known peer but the
\* caller, each once.
KnownPeersGrowAndAreTargeted ==
    [][\A p \in Peers :
          /\ p \in known[p] /\ p \in known'[p]
          /\ known[p] \subseteq known'[p]
          /\ \A id \in received'[p] : msgs'[id].sender \in known'[p]
          /\ \A id \in CreatedNow :
                msgs'[id].sender = p =>
                   /\ Range(msgs'[id].recips) = known[p] \ {p}
                   /\ Len(msgs'[id].recips) = Cardinality(known[p] \ {p})]_vars

\* Witness for C33: peer 1, started knowing nobody, has handled a Multicast
\* of peer 0 and has then multicast to peer 0.
LearntSenderIsTargeted ==
    \E a, b \in DOMAIN msgs :
        /\ a < b
        /\ msgs[a].sender = 0
        /\ a \in received[1]
        /\ msgs[b].sender = 1
        /\ msgs[b].recips = <<0>>


\* p stamps a message in this step: its clock moves and it takes no frame
\* off a connection, so that the move is a tick, whose value is the stamp
StampsNow(p) ==
    /\ clock'[p] # clock[p]
    /\ \A f \in BagToSet(net) : ~Takes(p, f)

\* The timestamps p has put on messages so far: on its Multicasts, in the
\* callers of multicast that have ticked, and on its Acks under way
StampedBy(p) ==
    {msgs[id].ts : id \in {i \in DOMAIN msgs : msgs[i].sender = p}}
    \cup {c.timestamp : c \in {d \in BagToSet(callers[p]) : d.pc # "tick"}}
    \cup {f.ts : f \in {g \in UnderWay : g.kind = ACK.value /\ g.sender = p}}

\* The timestamps of the messages p has handled or is handling
HandledBy(p) ==
    {msgs[id].ts : id \in received[p]} \cup {t.f.ts : t \in BagToSet(threads[p])}

\* C34: a timestamp that a peer puts on a Multicast or an Ack is greater
\* than the timestamp of every message the peer has handled before and than
\* every timestamp the peer has stamped before.
StampsFollowHappensBefore ==
    [][\A p \in Peers :
          /\ \A s \in StampedBy(p) \cup HandledBy(p) : s <= clock[p]
          /\ StampsNow(p) =>
                /\ \A s \in HandledBy(p) : clock'[p] > s
                /\ \A s \in StampedBy(p) : clock'[p] > s
                /\ \A id \in CreatedNow : msgs'[id].sender = p => msgs'[id].ts = clock'[p]
                /\ StampedBy(p)' \subseteq StampedBy(p) \cup {clock'[p]}]_vars

\* Witness for C34: peer 0 has multicast a, has handled the Ack for a, and
\* has then stamped b; peer 1's Ack is stamped above a, and b above the Ack.
StampedAfterHandling ==
    \E a, b \in DOMAIN msgs : \E t \in BagToSet(threads[0]) :
        /\ msgs[a].sender = 0
        /\ msgs[b].sender = 0
        /\ t.f.kind = ACK.value
        /\ t.f.id = a
        /\ msgs[a].ts < t.f.ts
        /\ t.f.ts < msgs[b].ts


\* The Multicasts that a handler of p has accepted and not yet left
InHandler(p) ==
    {t.f.id : t \in {u \in BagToSet(threads[p]) : u.pc \in {"emit", "enqueue", "deliver"}}}

SingleAckLostMeansFailure ==
    \A id \in DOMAIN msgs :
        /\ \A p \in Peers : ackCount[p][id] <= 1
        /\ ackLost[id] => id \notin Range(completedLog[msgs[id].sender])


\* The Acks under way or being handled
AcksUnderWay == {f \in UnderWay : f.kind = ACK.value}

\* The callers of multicast at p that have ticked
Ticked(p) == {c \in BagToSet(callers[p]) : c.pc # "tick"}

\* C37: no two Multicasts have the same (timestamp, sender_id), and the
\* timestamps one peer has put on its Multicasts, in its callers of
\* multicast and on its Acks are pairwise distinct.
OrderingKeyUnique ==
    /\ \A a, b \in DOMAIN msgs : a # b => Key(a) # Key(b)
    /\ \A p \in Peers : \A c \in Ticked(p) :
          /\ c.pc # "send" => CopiesIn(c, callers[p]) = 1
          /\ \A d \in Ticked(p) : c # d => c.timestamp # d.timestamp
          /\ \A id \in DOMAIN msgs :
                msgs[id].sender = p /\ c.id # id => msgs[id].ts # c.timestamp
    /\ \A f \in AcksUnderWay :
          /\ \A g \in AcksUnderWay : f.sender = g.sender /\ f # g => f.ts # g.ts
          /\ \A id \in DOMAIN msgs : msgs[id].sender = f.sender => msgs[id].ts # f.ts
          /\ \A c \in Ticked(f.sender) : c.timestamp # f.ts

\* Witness for C37: two callers of multicast at peer 0 have run side by
\* side, taking the same sequence number, and their Multicasts have
\* different timestamps.
InterleavedCallersStampedApart ==
    \E a, b \in DOMAIN msgs :
        /\ a # b
        /\ msgs[a].sender = 0
        /\ msgs[b].sender = 0
        /\ msgs[a].seq = msgs[b].seq
        /\ msgs[a].ts # msgs[b].ts


\* w waits for a lock that another thread, or w itself, holds
Blocked(w) == NextOp(w).op = "acquire" /\ lock[NextOp(w).lock] # Free

\* w can go on, or waits for a thread that can get on within n waits
RECURSIVE CanProceed(_, _)
CanProceed(n, w) ==
    \/ ~Blocked(w)
    \/ n > 0 /\ CanProceed(n - 1, lock[NextOp(w).lock])

\* C38: no thread waits for a lock in a cycle of waiting threads: every
\* thread that waits for a lock waits, directly or through other waiting
\* threads, for a thread that can go on.
NoLockCycle == \A w \in Workers : CanProceed(Cardinality(Workers), w)

\* Witness for C38: the timeout thread, holding pending_lock, waits for
\* log_lock, which a reader holds together with queue_lock while it waits
\* for the clock's lock, which the caller holds.
NestedWaitsResolve ==
    /\ lock["pending_lock"] = "checker"
    /\ Blocked("checker")
    /\ lock["queue_lock"] = "reader1"
    /\ lock["log_lock"] = "reader1"
    /\ Blocked("reader1")
    /\ lock["clock_lock"] = "caller"


\* C39: once a call of stop() on a process has returned, the flag of its
\* engine is cleared, so that the timeout thread ends: also when the
\* process was never started, when its start failed, and when stop() is
\* called again.
StopTellsEngineToStop ==
    \A p \in Peers : process[p].stops > 0 => ~running[p]

\* C40: while a process is not running, no Multicast of it is created, its
\* sequence number is not consumed and no entry is put into its pending
\* table; and a call of send_multicast_message that raises changes nothing
\* in the engine: no clock is ticked and nothing is sent.
NotRunningSendChangesNothing ==
    [][\A p \in Peers :
          /\ ~process[p].running =>
                /\ \A id \in CreatedNow : msgs'[id].sender # p
                /\ seqno'[p] = seqno[p]
                /\ DOMAIN pending'[p] \subseteq DOMAIN pending[p]
          /\ process'[p].raised # process[p].raised =>
                ~process[p].running /\ engine' = engine]_vars

\* Witness for C40: send_multicast_message has raised on a process that
\* has multicast and has then been stopped, and on one never started.
RaisedBeforeStartAndAfterStop ==
    /\ process[0].started = "ok"
    /\ ~process[0].running
    /\ process[0].raised > 0
    /\ \E id \in DOMAIN msgs : msgs[id].sender = 0
    /\ process[1].started = "no"
    /\ process[1].raised > 0

=============================================================================
